---- MODULE Spec2Model ----
(***************************************************************************)
(* Model of the commit-mining scripts new-script.py (test-related commits) *)
(* and teste.py (refactoring commits).                                     *)
(*                                                                         *)
(* Paths, messages and patches are character strings; the substring,       *)
(* suffix, lower-casing and word-boundary tests are computed character by  *)
(* character, as Python's `in`, str.endswith, str.lower and re.search do.  *)
(***************************************************************************)
EXTENDS Integers, Sequences, FiniteSets, TLC

VARIABLES
    pc,                       \* position of the running function
    \* ---- new-script.py configuration (lines 19-22)
    max_files_to_check,
    max_depth,
    max_commits_to_process,
    qualitative_commits_count,
    \* ---- find_test_files
    tree,                     \* the repository: listed directory -> its entries
    test_files_set,
    files_processed,
    directories_to_process,   \* stack of <<path, depth>>
    processed_directories,
    requests,                 \* every repo.get_contents(path) made, in order
    queued,                   \* directory -> the entries its listing queued, in order
    first,                    \* what an earlier find_test_files call over this tree did
    \* ---- process_commits / check_commit
    commits,                  \* the commit stream
    idx,                      \* commits taken from the stream so far
    attempt,                  \* check_commit's retry-loop counter
    trace,                    \* get_commit calls and sleeps of the current check_commit
    commit_details,           \* what the last check_commit returned
    commit_messages,
    qualitative_commits,
    test_related_commit_count,
    analyzed_commits,
    author_commit_count,
    pauses,                   \* the throttle sleeps and the analyzed_commits they ran at
    script,                   \* which script's process_commits runs
    refactor_related_commit_count,
    attempted,                \* outcome of every check_commit call that returned
    flaky,                    \* stream positions whose repo.get_commit may raise
    \* ---- determine_commit_objective, called on its own
    objective_in,
    objective_out

vars == <<pc, max_files_to_check, max_depth, max_commits_to_process,
          qualitative_commits_count, tree, test_files_set, files_processed,
          directories_to_process, processed_directories, requests,
          queued, first, commits, idx,
          attempt, trace, commit_details, commit_messages, qualitative_commits,
          test_related_commit_count, analyzed_commits, author_commit_count,
          pauses, script, refactor_related_commit_count, attempted, flaky,
          objective_in, objective_out>>

walkVars == <<tree, files_processed, directories_to_process,
              processed_directories, requests, max_files_to_check, max_depth,
              queued, first>>

commitVars == <<commits, idx, attempt, trace, commit_details, commit_messages,
                qualitative_commits, test_related_commit_count, analyzed_commits,
                author_commit_count, pauses, max_commits_to_process,
                qualitative_commits_count, script,
                refactor_related_commit_count, attempted, flaky>>

objectiveVars == <<objective_in, objective_out>>

-----------------------------------------------------------------------------
(* Bounds of the model *)

MaxFilesCap == 1        \* max_files_to_check ranges over 1..MaxFilesCap
MaxDepthCap == 1        \* max_depth ranges over 0..MaxDepthCap
MaxDirs == 2            \* directories in the repository besides the root
MaxEntries == 2         \* entries of one directory
MaxStream == 3          \* commits in the stream
MaxCommitsCap == 2      \* max_commits_to_process ranges over 0..MaxCommitsCap
MaxQualitative == 1     \* qualitative_commits_count ranges over 0..MaxQualitative
MaxPhrases == 2         \* phrases in a commit message given to determine_commit_objective
LongStream == 201       \* commits in the long stream of SpecThrottle

-----------------------------------------------------------------------------
(* Strings *)

UpperLetters == "ABCDEFGHIJKLMNOPQRSTUVWXYZ"
LowerLetters == "abcdefghijklmnopqrstuvwxyz"
Digits == "0123456789_"

CharAt(s, i) == SubSeq(s, i, i)

HasChar(s, c) == \E i \in 1..Len(s) : CharAt(s, i) = c

LowerChar(c) ==
    IF HasChar(UpperLetters, c)
    THEN CharAt(LowerLetters, CHOOSE i \in 1..Len(UpperLetters) : CharAt(UpperLetters, i) = c)
    ELSE c

RECURSIVE Lower(_)
Lower(s) ==
    IF s = "" THEN "" ELSE LowerChar(CharAt(s, 1)) \o Lower(SubSeq(s, 2, Len(s)))

\* Python: p in s
Contains(s, p) ==
    \E i \in 1..(Len(s) - Len(p) + 1) : SubSeq(s, i, i + Len(p) - 1) = p

\* Python: s.endswith(suf)
EndsWith(s, suf) ==
    /\ Len(s) >= Len(suf)
    /\ SubSeq(s, Len(s) - Len(suf) + 1, Len(s)) = suf

\* re: \w
IsWordChar(c) ==
    HasChar(LowerLetters, c) \/ HasChar(UpperLetters, c) \/ HasChar(Digits, c)

\* re: \b at the gap before position i of s (1 <= i <= Len(s) + 1)
WordBoundary(s, i) ==
    LET before == i > 1 /\ IsWordChar(CharAt(s, i - 1))
        after == i <= Len(s) /\ IsWordChar(CharAt(s, i))
    IN before # after

\* re.search(r'\b' + lit [+ r'\b'], s, re.IGNORECASE), lit in lower case
SearchWord(s, lit, closed) ==
    LET low == Lower(s)
    IN \E i \in 1..(Len(s) - Len(lit) + 1) :
          /\ SubSeq(low, i, i + Len(lit) - 1) = lit
          /\ WordBoundary(s, i)
          /\ closed => WordBoundary(s, i + Len(lit))

-----------------------------------------------------------------------------
(* Commits, as the repository delivers them *)

\* Python's None, as check_commit returns it
None == [kind |-> "None"]

File(filename, patch) == [filename |-> filename, patch |-> patch]

Commit(sha, message, author, has_parents, files) ==
    [sha |-> sha, message |-> message, author |-> author,
     has_parents |-> has_parents, files |-> files]

\* the commits a stream is made of; author "" is a missing author name
CommitPool ==
    { Commit("c1", "Add test for parser", "ana", TRUE,
             <<File("parser.test.js", "+ return 1")>>),
      Commit("c2", "Fix bug", "bob", TRUE,
             <<File("main.js", "+ x = 1")>>),
      Commit("c3", "Remove Test, add test", "", TRUE,
             <<File("main.js", "+ Assert(x)"), File("README", "")>>),
      Commit("c4", "Refactor walker", "ana", FALSE,
             <<File("lib.js", "+ y = 2")>>),
      Commit("c5", "Update docs", "bob", TRUE,
             <<File("lib.js", "+ // cleanup of names")>>) }

\* the streams: up to MaxStream distinct commits, in any order
Streams ==
    UNION {{s \in [1..n -> CommitPool] : \A i, j \in 1..n : s[i] = s[j] => i = j}
              : n \in 0..MaxStream}

\* the test-file sets find_test_files may have handed over
TestFileSets == {{}, {"parser.test.js"}}

-----------------------------------------------------------------------------
(* The repository tree, as repo.get_contents sees it *)

DirNames == {"Tests", "nottest", "src"}
FileNames == {"x.test.js", "main.js", "a.feature"}

\* ContentFile.path of the entry `name` of directory `dir`
JoinPath(dir, name) == IF dir = "" THEN name ELSE dir \o "/" \o name

\* number of path components of a repository-relative path
PathLevels(path) ==
    IF path = "" THEN 0
    ELSE 1 + Cardinality({i \in 1..Len(path) : CharAt(path, i) = "/"})

ChildEntries(dir) ==
    {[path |-> JoinPath(dir, n), type |-> "dir"] : n \in DirNames}
        \cup {[path |-> JoinPath(dir, n), type |-> "file"] : n \in FileNames}

DirCount(t) ==
    Cardinality({e \in UNION {t[d] : d \in DOMAIN t} : e.type = "dir"})

\* what a first listing of `dir` may hold, the repository staying within its bounds
Listings(dir) ==
    {E \in SUBSET ChildEntries(dir) :
        /\ Cardinality(E) <= MaxEntries
        /\ DirCount(tree) + Cardinality({e \in E : e.type = "dir"}) <= MaxDirs}

\* the tree is unchanged during a run: a directory listed before lists the same
ListingsNow(dir) == IF dir \in DOMAIN tree THEN {tree[dir]} ELSE Listings(dir)

\* the orders in which one listing may deliver its entries
Orderings(E) ==
    {s \in [1..Cardinality(E) -> E] : {s[i] : i \in 1..Cardinality(E)} = E}

-----------------------------------------------------------------------------
(* find_test_files *)

test_extensions ==
    {".test.js", ".spec.js", ".test.py", ".spec.py", ".feature", ".test.ts", ".spec.ts"}
test_patterns == {"test", "spec", "unittest", "integration", "e2e", "fixture"}
test_directories == {"tests", "spec", "test", "unittests"}

\* line 136 without the substring test on the lower-cased path
is_test_file_ExtensionOnly(filename) ==
    \E ext \in test_extensions : EndsWith(filename, ext)

\* lines 131-136
is_test_file(filename) ==
    \/ \E ext \in test_extensions : EndsWith(filename, ext)
    \/ \E pattern \in test_patterns : Contains(Lower(filename), pattern)

is_test_directory(path) ==
    \E dir \in test_directories : Contains(Lower(path), dir)

\* line 104: the while condition
WalkContinues ==
    directories_to_process # <<>> /\ files_processed < max_files_to_check

\* the depth test of line 106 off by one
SkipDirectoryOffByOne(current_dir, current_depth) ==
    current_dir \in processed_directories \/ current_depth > max_depth + 1

\* line 106: the entry popped is dropped without being listed
SkipDirectory(current_dir, current_depth) ==
    current_dir \in processed_directories \/ current_depth > max_depth

\* line 105: the entry directories_to_process.pop() returns
Top == directories_to_process[Len(directories_to_process)]

\* line 105 leaving the entry on the work list
NotPopped == directories_to_process

\* line 105 taking two entries off the work list
PoppedTwice == SubSeq(directories_to_process, 1, Len(directories_to_process) - 2)

\* line 105: the work list after directories_to_process.pop()
Popped == SubSeq(directories_to_process, 1, Len(directories_to_process) - 1)

\* lines 116-119: the directories one listing queues, in listing order
QueuedDirs(current_contents, current_depth) ==
    LET dirs == SelectSeq(current_contents,
                          LAMBDA e : e.type = "dir" /\ is_test_directory(e.path))
    IN [i \in 1..Len(dirs) |-> <<dirs[i].path, current_depth + 1>>]

\* lines 120-123: the files one listing adds
FoundFiles(current_contents) ==
    SelectSeq(current_contents, LAMBDA e : e.type # "dir" /\ is_test_file(e.path))

\* one repo.get_contents(path) call, the depth it was made at, and how it ended
Request(path, depth, ended) == [path |-> path, depth |-> depth, ended |-> ended]

\* line 98: contents = repo.get_contents(""), outside any try
GetRootContents ==
    /\ pc = "start"
    /\ \/ /\ requests' = Append(requests, Request("", 0, "raised"))
          /\ pc' = "raised"
          /\ UNCHANGED tree
       \/ /\ requests' = Append(requests, Request("", 0, "returned"))
          /\ \E E \in ListingsNow("") :
                tree' = [d \in DOMAIN tree \cup {""} |-> IF d = "" THEN E ELSE tree[d]]
          /\ pc' = "walk"
    /\ UNCHANGED <<test_files_set, files_processed, directories_to_process, queued,
                   processed_directories, max_files_to_check, max_depth, first>>
    /\ UNCHANGED <<commitVars, objectiveVars>>

\* lines 105-107: pop, then `continue`
WalkSkip ==
    /\ pc = "walk"
    /\ WalkContinues
    /\ SkipDirectory(Top[1], Top[2])
    /\ directories_to_process' = Popped
    /\ UNCHANGED <<pc, tree, test_files_set, files_processed, processed_directories,
                   requests, queued, max_files_to_check, max_depth, first>>
    /\ UNCHANGED <<commitVars, objectiveVars>>

\* lines 105-114: pop, mark, and the listing raises
WalkListFails ==
    /\ pc = "walk"
    /\ WalkContinues
    /\ ~SkipDirectory(Top[1], Top[2])
    /\ directories_to_process' = Popped
    /\ processed_directories' = processed_directories \cup {Top[1]}
    /\ requests' = Append(requests, Request(Top[1], Top[2], "raised"))
    /\ UNCHANGED <<pc, tree, test_files_set, files_processed, queued,
                   max_files_to_check, max_depth, first>>
    /\ UNCHANGED <<commitVars, objectiveVars>>

\* lines 105-127: pop, mark, list, and scan the whole listing
WalkList ==
    /\ pc = "walk"
    /\ WalkContinues
    /\ ~SkipDirectory(Top[1], Top[2])
    /\ processed_directories' = processed_directories \cup {Top[1]}
    /\ requests' = Append(requests, Request(Top[1], Top[2], "returned"))
    /\ \E E \in ListingsNow(Top[1]) :
          /\ tree' = [d \in DOMAIN tree \cup {Top[1]} |->
                         IF d = Top[1] THEN E ELSE tree[d]]
          /\ \E current_contents \in Orderings(E) :
                LET found == FoundFiles(current_contents)
                IN /\ directories_to_process' =
                          Popped \o QueuedDirs(current_contents, Top[2])
                   /\ queued' = [d \in DOMAIN queued \cup {Top[1]} |->
                                    IF d = Top[1]
                                    THEN QueuedDirs(current_contents, Top[2])
                                    ELSE queued[d]]
                   /\ test_files_set' =
                          test_files_set \cup {found[i].path : i \in 1..Len(found)}
                   /\ files_processed' = files_processed + Len(found)
    /\ UNCHANGED <<pc, max_files_to_check, max_depth, first>>
    /\ UNCHANGED <<commitVars, objectiveVars>>

\* line 129
WalkReturn ==
    /\ pc = "walk"
    /\ ~WalkContinues
    /\ pc' = "done"
    /\ UNCHANGED <<walkVars, test_files_set>>
    /\ UNCHANGED <<commitVars, objectiveVars>>

\* the variables of process_commits while find_test_files runs
NoCommits ==
    /\ script = "new-script.py"
    /\ commits = <<>> /\ idx = 0 /\ attempt = 0 /\ trace = <<>>
    /\ commit_details = None /\ commit_messages = <<>>
    /\ qualitative_commits = <<>> /\ test_related_commit_count = 0
    /\ refactor_related_commit_count = 0 /\ attempted = <<>> /\ flaky = {}
    /\ analyzed_commits = 0 /\ author_commit_count = <<>> /\ pauses = <<>>
    /\ max_commits_to_process = 0 /\ qualitative_commits_count = 0

\* the variables of a lone determine_commit_objective call while none is made
NoObjective ==
    /\ objective_in = [message |-> "", files |-> <<>>]
    /\ objective_out = ""

\* lines 99-102, under every configuration within the bounds
InitWalk ==
    /\ pc = "start"
    /\ max_files_to_check \in 1..MaxFilesCap
    /\ max_depth \in 0..MaxDepthCap
    /\ tree = <<>>
    /\ test_files_set = {}
    /\ files_processed = 0
    /\ directories_to_process = << <<"", 0>> >>
    /\ processed_directories = {}
    /\ requests = <<>>
    /\ queued = <<>>
    /\ first = None
    /\ NoCommits
    /\ NoObjective

NextWalk == GetRootContents \/ WalkSkip \/ WalkListFails \/ WalkList \/ WalkReturn

SpecWalk == InitWalk /\ [][NextWalk]_vars

\* the paths whose listing raised during this call
FailedListings(reqs) == {reqs[i].path : i \in {j \in 1..Len(reqs) : reqs[j].ended = "raised"}}

\* what one finished call leaves to compare a later call with
Run(files, order, failed, processed) ==
    [kind |-> "run", files |-> files, queued |-> order, failed |-> failed,
     files_processed |-> processed]

\* a second find_test_files(repo) after the first returned: lines 99-102 start
\* afresh, the repository is the one the first call saw
CallAgain ==
    /\ pc = "done"
    /\ first = None
    /\ first' = Run(test_files_set, queued, FailedListings(requests), files_processed)
    /\ pc' = "start"
    /\ test_files_set' = {}
    /\ files_processed' = 0
    /\ directories_to_process' = << <<"", 0>> >>
    /\ processed_directories' = {}
    /\ requests' = <<>>
    /\ queued' = <<>>
    /\ UNCHANGED <<tree, max_files_to_check, max_depth>>
    /\ UNCHANGED <<commitVars, objectiveVars>>

NextWalkTwice == NextWalk \/ CallAgain

\* line 19: max_files_to_check as the script sets it
DefaultMaxFiles == 5000

Dir(path) == [path |-> path, type |-> "dir"]
Blob(path) == [path |-> path, type |-> "file"]

\* whole repositories, every directory with its listing
Repositories ==
    { [d \in {"", "Tests", "nottest", "Tests/src"} |->
          CASE d = "" -> {Dir("Tests"), Dir("nottest"), Blob("main.js")}
            [] d = "Tests" -> {Blob("Tests/x.test.js"), Dir("Tests/src")}
            [] d = "nottest" -> {Blob("nottest/a.feature")}
            [] OTHER -> {Blob("Tests/src/main.js")}],
      [d \in {"", "Tests", "Tests/nottest", "src"} |->
          CASE d = "" -> {Dir("Tests"), Dir("src"), Blob("x.test.js")}
            [] d = "Tests" -> {Dir("Tests/nottest"), Blob("Tests/a.feature")}
            [] d = "Tests/nottest" -> {Blob("Tests/nottest/x.test.js")}
            [] OTHER -> {Blob("src/x.test.js")}],
      [d \in {"", "Tests", "nottest"} |->
          CASE d = "" -> {Dir("Tests"), Dir("nottest")}
            [] d = "Tests" -> {Blob("Tests/x.test.js"), Blob("Tests/a.feature")}
            [] OTHER -> {Blob("nottest/x.test.js"), Blob("nottest/main.js")}] }

\* lines 99-102 of the first of two calls over one of the repositories, with a
\* file cap the walk can reach or the cap of line 19
InitWalkTwice ==
    /\ pc = "start"
    /\ max_files_to_check \in (1..MaxFilesCap) \cup {DefaultMaxFiles}
    /\ max_depth \in 0..MaxDepthCap
    /\ tree \in Repositories
    /\ test_files_set = {}
    /\ files_processed = 0
    /\ directories_to_process = << <<"", 0>> >>
    /\ processed_directories = {}
    /\ requests = <<>>
    /\ queued = <<>>
    /\ first = None
    /\ NoCommits
    /\ NoObjective

SpecWalkTwice == InitWalkTwice /\ [][NextWalkTwice]_vars

\* line 20: max_depth as the script sets it
DefaultMaxDepth == 6

\* whole repositories whose listings lead back to the directory itself, to an
\* ancestor or to a directory listed before
LinkedRepositories ==
    { [d \in {"", "Tests", "nottest"} |->
          CASE d = "" -> {Dir("Tests"), Dir("nottest"), Blob("main.js")}
            [] d = "Tests" -> {Dir("Tests"), Dir("nottest"), Blob("Tests/x.test.js")}
            [] OTHER -> {Dir("Tests"), Dir("nottest"), Blob("nottest/a.feature")}],
      [d \in {"", "Tests", "Tests/spec"} |->
          CASE d = "" -> {Dir("Tests"), Blob("x.test.js")}
            [] d = "Tests" -> {Dir("Tests/spec"), Blob("Tests/a.feature")}
            [] OTHER -> {Dir("Tests"), Dir("Tests/spec"), Blob("Tests/spec/x.test.js")}],
      [d \in {"", "Tests"} |->
          CASE d = "" -> {Dir("Tests")}
            [] OTHER -> {Dir("Tests"), Blob("Tests/main.js")}] }

\* lines 99-102, over one of the linked repositories, with caps the walk can
\* reach or the caps of lines 19-20
InitWalkLinks ==
    /\ pc = "start"
    /\ max_files_to_check \in (1..MaxFilesCap) \cup {DefaultMaxFiles}
    /\ max_depth \in (0..MaxDepthCap) \cup {DefaultMaxDepth}
    /\ tree \in LinkedRepositories
    /\ test_files_set = {}
    /\ files_processed = 0
    /\ directories_to_process = << <<"", 0>> >>
    /\ processed_directories = {}
    /\ requests = <<>>
    /\ queued = <<>>
    /\ first = None
    /\ NoCommits
    /\ NoObjective

\* the script is one thread that runs on for as long as it has a step to take
FairSpecWalkLinks == InitWalkLinks /\ [][NextWalk]_vars /\ WF_vars(NextWalk)

-----------------------------------------------------------------------------
(* new-script.py: check_commit and determine_commit_objective *)

retries == 3
RateLimitSleep == 60
ThrottleEvery == 100
ThrottleSleep == 10

\* lines 24-29, each optional group written out; every pattern is \b...\b
get_keywords ==
    {"test", "tests", "teste", "test case", "test cases", "add test", "added test",
     "update test", "updated test", "remove test", "removed test", "fix", "assert",
     "integration"}

MatchesKeywords(message) ==
    \E keyword \in get_keywords : SearchWord(message, keyword, TRUE)

\* lines 77-82; patch is a str here (line 51: file.patch or "")
contains_test_code(patch) ==
    \/ \E word \in {"assert", "expect"} : SearchWord(patch, word, TRUE)
    \/ \E call \in {"it(", "describe(", "test(", "mock(", "spy("} :
          SearchWord(patch, call, FALSE)

objective_extensions == {".test.js", ".spec.js", ".test.py", ".spec.py", ".feature"}

\* lines 84-94 with the remove-test rule tried first
determine_commit_objective_RemoveFirst(commit_message, changed_files) ==
    IF Contains(Lower(commit_message), "remove test") THEN "Removing test cases"
    ELSE IF Contains(Lower(commit_message), "add test") THEN "Adding new test cases"
    ELSE IF Contains(Lower(commit_message), "update test")
    THEN "Updating existing test cases"
    ELSE IF \E i \in 1..Len(changed_files) : \E ext \in objective_extensions :
                EndsWith(Lower(changed_files[i].filename), ext)
    THEN "Changes in test files"
    ELSE "No specific test objective identified"

\* lines 84-94
determine_commit_objective(commit_message, changed_files) ==
    IF Contains(Lower(commit_message), "add test") THEN "Adding new test cases"
    ELSE IF Contains(Lower(commit_message), "update test")
    THEN "Updating existing test cases"
    ELSE IF Contains(Lower(commit_message), "remove test") THEN "Removing test cases"
    ELSE IF \E i \in 1..Len(changed_files) : \E ext \in objective_extensions :
                EndsWith(Lower(changed_files[i].filename), ext)
    THEN "Changes in test files"
    ELSE "No specific test objective identified"

\* lines 49-58: the changed files kept in `result`
TestRelatedFiles(commit) ==
    SelectSeq(commit.files,
              LAMBDA file : file.filename \in test_files_set
                               \/ contains_test_code(file.patch))

\* lines 69-75 with the objective computed by the precedence rules
UnrelatedObjectiveByRules(commit) ==
    determine_commit_objective(commit.message, commit.files)

\* line 74
UnrelatedObjective(commit) == "No test files involved"

\* lines 48-75: what check_commit returns once the commit is fetched
Classify(commit) ==
    LET result == TestRelatedFiles(commit)
    IN IF result # <<>>
       THEN [kind |-> "details", commit_sha |-> commit.sha,
             message |-> commit.message, files |-> result,
             related_to_tests |-> TRUE,
             objective |-> determine_commit_objective(commit.message, commit.files)]
       ELSE [kind |-> "details", commit_sha |-> commit.sha,
             message |-> commit.message, files |-> <<>>,
             related_to_tests |-> FALSE,
             objective |-> UnrelatedObjective(commit)]

-----------------------------------------------------------------------------
(* teste.py: check_commit *)

\* teste.py lines 15-20, every pattern is \b...\b
get_refactor_keywords ==
    {"refactor", "extract method", "move method", "move attribute", "cleanup",
     "reorganize"}

\* teste.py lines 52-55
contains_refactor_code(patch) ==
    \E pattern \in get_refactor_keywords : SearchWord(patch, pattern, TRUE)

\* teste.py line 25: the diff against the first parent, or nothing
Diffs(commit) == IF commit.has_parents THEN commit.files ELSE <<>>

\* teste.py lines 22-50
ClassifyRefactor(commit) ==
    LET refactor_related_files ==
            SelectSeq(Diffs(commit), LAMBDA diff : contains_refactor_code(diff.patch))
    IN [kind |-> "details", commit_sha |-> commit.sha, message |-> commit.message,
        files |-> refactor_related_files,
        related_to_refactor |-> refactor_related_files # <<>>]

-----------------------------------------------------------------------------
(* process_commits *)

\* lines 216 / teste.py 80: commit.author.name or "Unknown"
AuthorName(commit) == IF commit.author = "" THEN "Unknown" ELSE commit.author

\* author_commit_count[author] += 1 on a defaultdict(int)
Increment(count, author) ==
    [a \in DOMAIN count \cup {author} |->
        IF a = author
        THEN (IF a \in DOMAIN count THEN count[a] ELSE 0) + 1
        ELSE count[a]]

\* lines 206 / teste.py 69, with > for >=
CapReachedLate == analyzed_commits > max_commits_to_process

\* lines 206 / teste.py 69
CapReached == analyzed_commits >= max_commits_to_process

\* lines 220 / teste.py 83, with <= for <
SampleHasRoomLate == Len(qualitative_commits) <= qualitative_commits_count

\* lines 220 / teste.py 83
SampleHasRoom == Len(qualitative_commits) < qualitative_commits_count

\* the retry loop of line 34 running one more time
RetriesExhaustedLate(n) == n >= retries + 1

\* line 34: range(retries) is used up after n iterations
RetriesExhausted(n) == n >= retries

\* line 212 without its related_to_tests test
IsMatchAnyFetched(details) == details.kind = "details"

\* line 212 without its `is not None` test, a None counted as a match
IsMatchNoneToo(details) == details.kind = "None" \/ details.related_to_tests

\* line 212
IsMatch(details) == details.kind = "details" /\ details.related_to_tests

\* lines 231-233 with the count tested before its increment of line 223
ThrottleBeforeIncrement(n) ==
    IF (n - 1) % ThrottleEvery = 0
    THEN Append(pauses, [analyzed |-> n, seconds |-> ThrottleSleep])
    ELSE pauses

\* lines 231-233 / teste.py 89-91
Throttle(n) ==
    IF n % ThrottleEvery = 0
    THEN Append(pauses, [analyzed |-> n, seconds |-> ThrottleSleep])
    ELSE pauses

Current == commits[idx]

Outcome(details) ==
    IF details.kind = "None" THEN "failed"
    ELSE IF details.related_to_tests THEN "related" ELSE "unrelated"

\* lines 212-233: the rest of the loop body once check_commit has returned `details`
Aggregate(details) ==
    /\ commit_details' = details
    /\ attempted' = Append(attempted, Outcome(details))
    /\ IF IsMatch(details)
       THEN /\ commit_messages' = Append(commit_messages, details)
            /\ test_related_commit_count' = test_related_commit_count + 1
            /\ author_commit_count' = Increment(author_commit_count, AuthorName(Current))
            /\ qualitative_commits' =
                   IF SampleHasRoom THEN Append(qualitative_commits, details)
                   ELSE qualitative_commits
       ELSE UNCHANGED <<commit_messages, test_related_commit_count,
                        author_commit_count, qualitative_commits>>
    /\ analyzed_commits' = analyzed_commits + 1
    /\ pauses' = Throttle(analyzed_commits + 1)
    /\ pc' = "loop"

\* one repo.get_commit(commit_sha) call and how it ended
GetCommit(ended) == [op |-> "get_commit", sha |-> Current.sha, ended |-> ended]
\* one time.sleep(seconds) call
Sleep(seconds) == [op |-> "sleep", seconds |-> seconds]

\* lines 205-210: the next commit of the stream is handed to check_commit
BeginCheckCommit ==
    /\ pc = "loop"
    /\ script = "new-script.py"
    /\ idx < Len(commits)
    /\ ~CapReached
    /\ idx' = idx + 1
    /\ attempt' = 0
    /\ trace' = <<>>
    /\ pc' = "fetch"
    /\ UNCHANGED <<commit_details, commit_messages, qualitative_commits,
                   test_related_commit_count, analyzed_commits, author_commit_count,
                   pauses, attempted>>
    /\ UNCHANGED <<commits, script, refactor_related_commit_count,
                   max_commits_to_process, qualitative_commits_count, flaky>>
    /\ UNCHANGED <<walkVars, test_files_set, objectiveVars>>

\* lines 36-37, 48-75, then 212-233: get_commit answers
FetchSucceeds ==
    /\ pc = "fetch"
    /\ trace' = Append(trace, GetCommit("returned"))
    /\ Aggregate(Classify(Current))
    /\ UNCHANGED <<idx, attempt>>
    /\ UNCHANGED <<commits, script, refactor_related_commit_count,
                   max_commits_to_process, qualitative_commits_count, flaky>>
    /\ UNCHANGED <<walkVars, test_files_set, objectiveVars>>

\* lines 36, 38-40, and 44-46 then 212-233 when the retries are used up
FetchRateLimited ==
    /\ pc = "fetch"
    /\ idx \in flaky
    /\ trace' = trace \o <<GetCommit("RateLimitExceededException"),
                           Sleep(RateLimitSleep)>>
    /\ attempt' = attempt + 1
    /\ IF RetriesExhausted(attempt + 1)
       THEN Aggregate(None)
       ELSE UNCHANGED <<pc, commit_details, commit_messages, qualitative_commits,
                        test_related_commit_count, analyzed_commits,
                        author_commit_count, pauses, attempted>>
    /\ UNCHANGED idx
    /\ UNCHANGED <<commits, script, refactor_related_commit_count,
                   max_commits_to_process, qualitative_commits_count, flaky>>
    /\ UNCHANGED <<walkVars, test_files_set, objectiveVars>>

\* lines 41-43 going round the retry loop instead of returning
FetchErrorRetried ==
    /\ pc = "fetch"
    /\ idx \in flaky
    /\ trace' = Append(trace, GetCommit("Exception"))
    /\ attempt' = attempt + 1
    /\ IF RetriesExhausted(attempt + 1)
       THEN Aggregate(None)
       ELSE UNCHANGED <<pc, commit_details, commit_messages, qualitative_commits,
                        test_related_commit_count, analyzed_commits,
                        author_commit_count, pauses, attempted>>
    /\ UNCHANGED idx
    /\ UNCHANGED <<commits, script, refactor_related_commit_count,
                   max_commits_to_process, qualitative_commits_count, flaky>>
    /\ UNCHANGED <<walkVars, test_files_set, objectiveVars>>

\* lines 36, 41-43, then 212-233: get_commit raises another exception
FetchError ==
    /\ pc = "fetch"
    /\ idx \in flaky
    /\ trace' = Append(trace, GetCommit("Exception"))
    /\ Aggregate(None)
    /\ UNCHANGED <<idx, attempt>>
    /\ UNCHANGED <<commits, script, refactor_related_commit_count,
                   max_commits_to_process, qualitative_commits_count, flaky>>
    /\ UNCHANGED <<walkVars, test_files_set, objectiveVars>>

\* teste.py lines 68-91: one iteration of the loop
RefactorStep ==
    /\ pc = "loop"
    /\ script = "teste.py"
    /\ idx < Len(commits)
    /\ ~CapReached
    /\ idx' = idx + 1
    /\ LET commit == commits[idx + 1]
           details == ClassifyRefactor(commit)
       IN /\ commit_details' = details
          /\ analyzed_commits' = analyzed_commits + 1
          /\ attempted' = Append(attempted,
                 IF details.related_to_refactor THEN "related" ELSE "unrelated")
          /\ commit_messages' = Append(commit_messages, details)
          /\ refactor_related_commit_count' =
                 IF details.related_to_refactor
                 THEN refactor_related_commit_count + 1
                 ELSE refactor_related_commit_count
          /\ author_commit_count' = Increment(author_commit_count, AuthorName(commit))
          /\ qualitative_commits' =
                 IF SampleHasRoom THEN Append(qualitative_commits, details)
                 ELSE qualitative_commits
          /\ pauses' = Throttle(analyzed_commits + 1)
    /\ UNCHANGED <<pc, attempt, trace, test_related_commit_count>>
    /\ UNCHANGED <<commits, script, max_commits_to_process, qualitative_commits_count,
                   flaky>>
    /\ UNCHANGED <<walkVars, test_files_set, objectiveVars>>

\* lines 205-207 / teste.py 68-70: the stream is used up, or the cap breaks the loop
LoopExit ==
    /\ pc = "loop"
    /\ idx = Len(commits) \/ CapReached
    /\ pc' = "done"
    /\ UNCHANGED <<commitVars, walkVars, test_files_set, objectiveVars>>

\* the variables of find_test_files while process_commits runs
NoWalk ==
    /\ max_files_to_check = 1 /\ max_depth = 0
    /\ queued = <<>> /\ first = None
    /\ tree = <<>> /\ files_processed = 0
    /\ directories_to_process = <<>> /\ processed_directories = {}
    /\ requests = <<>>

\* lines 194-203 / teste.py 57-66, for every stream and configuration in the bounds
InitCommits ==
    /\ pc = "loop"
    /\ script \in {"new-script.py", "teste.py"}
    /\ commits \in Streams
    /\ flaky = 1..Len(commits)
    /\ max_commits_to_process \in 0..MaxCommitsCap
    /\ qualitative_commits_count \in 0..MaxQualitative
    /\ test_files_set \in (IF script = "new-script.py" THEN TestFileSets ELSE {{}})
    /\ idx = 0 /\ attempt = 0 /\ trace = <<>>
    /\ commit_details = None
    /\ commit_messages = <<>>
    /\ qualitative_commits = <<>>
    /\ test_related_commit_count = 0
    /\ refactor_related_commit_count = 0
    /\ analyzed_commits = 0
    /\ author_commit_count = <<>>
    /\ pauses = <<>>
    /\ attempted = <<>>
    /\ NoWalk
    /\ NoObjective

NextCommits ==
    \/ BeginCheckCommit
    \/ FetchSucceeds
    \/ FetchRateLimited
    \/ FetchError
    \/ RefactorStep
    \/ LoopExit

SpecCommits == InitCommits /\ [][NextCommits]_vars

-----------------------------------------------------------------------------
(* process_commits under the scripts' own configuration, on a long stream *)

DefaultMaxCommits == 200
DefaultQualitative == 10

\* commit number i of a long stream: test-related when i is even
LongCommit(i) ==
    IF i % 2 = 0
    THEN Commit("n" \o ToString(i), "Add test", "ana", TRUE,
                <<File("a.js", "+ expect(x)"), File("b.js", "+ // refactor")>>)
    ELSE Commit("n" \o ToString(i), "Fix bug", "bob", TRUE,
                <<File("main.js", "+ x = 1")>>)

\* the positions of a long stream whose fetch may fail: none, or those around the
\* multiples of ThrottleEvery
FlakyChoices ==
    {{}, {ThrottleEvery - 1, ThrottleEvery},
     {1, ThrottleEvery, ThrottleEvery + 1, 2 * ThrottleEvery}}

\* lines 19-22 and 194-203 / teste.py 9-10 and 57-66
InitThrottle ==
    /\ pc = "loop"
    /\ script \in {"new-script.py", "teste.py"}
    /\ commits = [i \in 1..LongStream |-> LongCommit(i)]
    /\ flaky \in (IF script = "new-script.py" THEN FlakyChoices ELSE {{}})
    /\ max_commits_to_process = DefaultMaxCommits
    /\ qualitative_commits_count = DefaultQualitative
    /\ test_files_set = {}
    /\ idx = 0 /\ attempt = 0 /\ trace = <<>>
    /\ commit_details = None
    /\ commit_messages = <<>>
    /\ qualitative_commits = <<>>
    /\ test_related_commit_count = 0
    /\ refactor_related_commit_count = 0
    /\ analyzed_commits = 0
    /\ author_commit_count = <<>>
    /\ pauses = <<>>
    /\ attempted = <<>>
    /\ NoWalk
    /\ NoObjective

SpecThrottle == InitThrottle /\ [][NextCommits]_vars

-----------------------------------------------------------------------------
(* determine_commit_objective on its own, over messages and file lists *)

Phrases == {"add test", "ADD Test", "remove test", "Remove TEST", "update test", "fix"}

RECURSIVE JoinPhrases(_)
JoinPhrases(s) ==
    IF s = <<>> THEN ""
    ELSE IF Len(s) = 1 THEN s[1]
    ELSE s[1] \o " " \o JoinPhrases(Tail(s))

Messages ==
    {JoinPhrases(s) : s \in UNION {[1..n -> Phrases] : n \in 0..MaxPhrases}}

FileLists ==
    {<<>>, <<File("main.js", "")>>, <<File("lib/A.SPEC.PY", "")>>,
     <<File("main.js", ""), File("login.feature", "")>>}

InitObjective ==
    /\ pc = "call"
    /\ objective_in \in [message : Messages, files : FileLists]
    /\ objective_out = ""
    /\ test_files_set = {}
    /\ NoWalk
    /\ NoCommits

\* lines 84-94
ObjectiveCall ==
    /\ pc = "call"
    /\ objective_out' =
           determine_commit_objective(objective_in.message, objective_in.files)
    /\ pc' = "done"
    /\ UNCHANGED <<objective_in, walkVars, test_files_set, commitVars>>

NextObjective == ObjectiveCall

SpecObjective == InitObjective /\ [][NextObjective]_vars

-----------------------------------------------------------------------------
(* Properties of find_test_files, under SpecWalk *)

\* last component of a path
BaseName(path) ==
    LET slashes == {i \in 1..Len(path) : CharAt(path, i) = "/"}
    IN IF slashes = {} THEN path
       ELSE SubSeq(path, (CHOOSE i \in slashes : \A j \in slashes : j <= i) + 1, Len(path))

StartsWith(s, pre) == Len(s) >= Len(pre) /\ SubSeq(s, 1, Len(pre)) = pre

\* C2: the set returned holds at most max_files_to_check paths, and the running
\* count files_processed never exceeds max_files_to_check.
C2_FileCapRespected ==
    /\ Cardinality(test_files_set) <= max_files_to_check
    /\ files_processed <= max_files_to_check

\* C3: no directory whose depth (root 0, child = parent + 1) exceeds max_depth is
\* ever listed, and no file deeper than max_depth + 1 path levels is in the set.
C3_DepthBounded ==
    /\ \A i \in 1..Len(requests) :
          /\ requests[i].depth = PathLevels(requests[i].path)
          /\ requests[i].depth <= max_depth
    /\ \A i \in 1..Len(directories_to_process) :
          directories_to_process[i][2] = PathLevels(directories_to_process[i][1])
    /\ \A f \in test_files_set : PathLevels(f) <= max_depth + 1

\* a test directory below max_depth was queued, popped and dropped unlisted, and
\* the walk ended with the file cap not reached
C3_Witness ==
    /\ pc = "done"
    /\ files_processed < max_files_to_check
    /\ \E d \in DOMAIN tree : \E e \in tree[d] :
          /\ e.type = "dir"
          /\ is_test_directory(e.path)
          /\ d \in processed_directories
          /\ PathLevels(e.path) > max_depth
          /\ e.path \notin processed_directories

\* C4: a directory is queued only if its own name is one of tests, test, spec,
\* unittests; the root-level directory nottest is never listed and no file
\* beneath it is added.
C4_OnlyNamedTestDirectories ==
    /\ \A i \in 1..Len(directories_to_process) :
          LET path == directories_to_process[i][1]
          IN path # "" => Lower(BaseName(path)) \in test_directories
    /\ \A i \in 1..Len(requests) : requests[i].path # "nottest"
    /\ \A f \in test_files_set : ~StartsWith(f, "nottest/")

-----------------------------------------------------------------------------
(* Properties of check_commit and process_commits, under SpecCommits, and of *)
(* determine_commit_objective, under SpecObjective                          *)

RECURSIVE SumOver(_, _)
SumOver(f, S) ==
    IF S = {} THEN 0
    ELSE LET a == CHOOSE a \in S : TRUE IN f[a] + SumOver(f, S \ {a})

Min(a, b) == IF a <= b THEN a ELSE b

\* the get_commit calls of the current check_commit call, in order
Fetches == SelectSeq(trace, LAMBDA e : e.op = "get_commit")

AllRateLimited ==
    /\ Fetches # <<>>
    /\ \A i \in 1..Len(Fetches) : Fetches[i].ended = "RateLimitExceededException"

\* check_commit has returned to process_commits
Returned == script = "new-script.py" /\ pc \in {"loop", "done"} /\ idx > 0

\* C1: when every get_commit call for a commit raises the rate-limit exception,
\* check_commit makes exactly 3 fetch attempts with a 60 s sleep between
\* consecutive attempts, then returns None to its caller; no attempt beyond the
\* third is ever made.
C1_RateLimitRetries ==
    /\ Len(Fetches) <= 3
    /\ (Returned /\ AllRateLimited) =>
          /\ Len(Fetches) = 3
          /\ \A i \in 1..Len(trace) :
                (trace[i].op = "get_commit" /\ i > 1) =>
                    /\ trace[i - 1] = Sleep(60)
                    /\ i > 2 /\ trace[i - 2].op = "get_commit"
          /\ commit_details = None
          /\ attempted[Len(attempted)] = "failed"

C1_Witness ==
    /\ Returned
    /\ AllRateLimited
    /\ Len(Fetches) = 3
    /\ commit_details = None

\* the three signals of the claimed test relation, for the commit just classified
MessageSignal == MatchesKeywords(Current.message)
PathSignal == \E i \in 1..Len(Current.files) : Current.files[i].filename \in test_files_set
PatchSignal == \E i \in 1..Len(Current.files) : contains_test_code(Current.files[i].patch)

\* C5: for every fetched commit, related_to_tests is true if and only if the
\* message matches a test keyword, or a changed file's path is in the test-file
\* set, or a changed file's patch matches a test-code pattern.
C5_ThreeSignals ==
    (Returned /\ commit_details.kind = "details") =>
        (commit_details.related_to_tests <=> (MessageSignal \/ PathSignal \/ PatchSignal))

\* the precedence rules: add test, update test, remove test, test-extension file,
\* otherwise; the label of the first rule that matches
RuleMatches(message, files) ==
    << Contains(Lower(message), "add test"),
       Contains(Lower(message), "update test"),
       Contains(Lower(message), "remove test"),
       \E i \in 1..Len(files) :
           \E ext \in {".test.js", ".spec.js", ".test.py", ".spec.py", ".feature"} :
               EndsWith(Lower(files[i].filename), ext),
       TRUE >>

RuleLabels ==
    << "Adding new test cases", "Updating existing test cases", "Removing test cases",
       "Changes in test files", "No specific test objective identified" >>

FirstMatchLabel(message, files) ==
    LET hit == RuleMatches(message, files)
    IN RuleLabels[CHOOSE i \in 1..5 : hit[i] /\ \A j \in 1..(i - 1) : ~hit[j]]

BothAddAndRemove(message) ==
    Contains(Lower(message), "add test") /\ Contains(Lower(message), "remove test")

\* C6: the label is that of the first matching rule in the order add test, update
\* test, remove test, test-extension file, otherwise; a message containing both
\* "add test" and "remove test" (any case) is labelled AddingTests, never
\* RemovingTests, whatever the file list.
C6_FirstMatchWins ==
    pc = "done" =>
        /\ objective_out = FirstMatchLabel(objective_in.message, objective_in.files)
        /\ BothAddAndRemove(objective_in.message) =>
               objective_out = "Adding new test cases"

C6_Witness ==
    /\ pc = "done"
    /\ objective_in.message = "Remove TEST add test"
    /\ objective_in.files # <<>>
    /\ objective_out = "Adding new test cases"

\* C7 as claimed: every result for a fetched commit, test-related or not, carries
\* one of the five labels of the precedence rules, chosen by those rules.
C7_LabelAmongFive ==
    (Returned /\ commit_details.kind = "details") =>
        /\ commit_details.objective \in {RuleLabels[i] : i \in 1..5}
        /\ commit_details.objective = FirstMatchLabel(Current.message, Current.files)

\* C7 as amended: a test-related result carries the label the precedence rules
\* choose among the five; a result that is not test-related carries the sixth
\* label "No test files involved".
C7_LabelByRelation ==
    (Returned /\ commit_details.kind = "details") =>
        /\ commit_details.related_to_tests =>
              /\ commit_details.objective \in {RuleLabels[i] : i \in 1..5}
              /\ commit_details.objective =
                     FirstMatchLabel(Current.message, Current.files)
        /\ ~commit_details.related_to_tests =>
              commit_details.objective = "No test files involved"

C7_Witness ==
    /\ Returned
    /\ commit_details.kind = "details"
    /\ ~commit_details.related_to_tests
    /\ commit_details.objective = "No test files involved"
    /\ \E i \in 1..Len(commit_messages) :
          commit_messages[i].objective = "Adding new test cases"

\* C8: analyzed_commits never exceeds max_commits_to_process, every attempted
\* commit counts whatever its outcome, and the loop ends with
\* analyzed_commits = min(max_commits_to_process, length of the stream).
C8_CapRespected ==
    /\ analyzed_commits <= max_commits_to_process
    /\ analyzed_commits = Len(attempted)
    /\ pc = "loop" => analyzed_commits = idx
    /\ pc = "done" => analyzed_commits = Min(max_commits_to_process, Len(commits))

C8_Witness ==
    /\ pc = "done"
    /\ Len(commits) > max_commits_to_process
    /\ analyzed_commits = max_commits_to_process
    /\ \E i, j \in 1..Len(attempted) : attempted[i] = "failed" /\ attempted[j] = "related"

\* C9: len(qualitative_commits) is at most qualitative_commits_count, in both
\* scripts, also when more than that many commits match.
C9_SampleBounded == Len(qualitative_commits) <= qualitative_commits_count

C9_Witness ==
    /\ qualitative_commits_count >= 1
    /\ Len(commit_messages) > qualitative_commits_count
    /\ Len(qualitative_commits) = qualitative_commits_count

Fetched == {i \in 1..Len(attempted) : attempted[i] # "failed"}
Related == {i \in 1..Len(attempted) : attempted[i] = "related"}

\* C10 as claimed: the author counts sum to the number of attempted commits whose
\* fetch succeeded, test-related or not.
C10_CountsEveryFetched ==
    script = "new-script.py" =>
        SumOver(author_commit_count, DOMAIN author_commit_count) = Cardinality(Fetched)

\* C10 as amended: author_commit_count[author] is incremented exactly once for
\* every attempted commit that was fetched and is test-related, so each author's
\* count is the number of that author's test-related commits and the counts sum
\* to test_related_commit_count.
C10_CountsTestRelated ==
    script = "new-script.py" =>
        /\ DOMAIN author_commit_count = {AuthorName(commits[i]) : i \in Related}
        /\ \A a \in DOMAIN author_commit_count :
              author_commit_count[a] =
                  Cardinality({i \in Related : AuthorName(commits[i]) = a})
        /\ SumOver(author_commit_count, DOMAIN author_commit_count)
               = test_related_commit_count

C10_Witness ==
    /\ script = "new-script.py"
    /\ pc = "done"
    /\ Cardinality(Fetched) > Cardinality(Related)
    /\ Cardinality(Related) >= 1
    /\ "Unknown" \in DOMAIN author_commit_count

\* C11: every entry of commit_messages is a matched commit: related_to_tests is
\* true in new-script.py, related_to_refactor is true in teste.py; unmatched
\* commits are never appended.
C11_OnlyMatchedListed ==
    \A i \in 1..Len(commit_messages) :
        IF script = "new-script.py"
        THEN commit_messages[i].related_to_tests
        ELSE commit_messages[i].related_to_refactor

\* the last check_commit call returned None and process_commits is back in its loop
JustFailed ==
    /\ script = "new-script.py"
    /\ pc = "loop"
    /\ attempted # <<>>
    /\ attempted[Len(attempted)] = "failed"

\* C12: when check_commit returns None, process_commits (new-script.py) leaves
\* commit_messages, qualitative_commits, author_commit_count and
\* test_related_commit_count unchanged for that commit, does not abort, and goes
\* on to attempt the next commit of the stream.
C12_FailureSkipsCommit ==
    [][/\ (script = "new-script.py" /\ pc = "fetch" /\ commit_details' = None
              /\ pc' # "fetch") =>
              /\ commit_messages' = commit_messages
              /\ qualitative_commits' = qualitative_commits
              /\ author_commit_count' = author_commit_count
              /\ test_related_commit_count' = test_related_commit_count
              /\ pc' = "loop"
       /\ (JustFailed /\ idx < Len(commits)
              /\ analyzed_commits < max_commits_to_process) =>
              /\ pc' = "fetch"
              /\ idx' = idx + 1
              /\ trace' = <<>>]_vars

\* a commit was attempted after a failed one and came out test-related
C12_Witness ==
    /\ script = "new-script.py"
    /\ Len(attempted) >= 2
    /\ attempted[1] = "failed"
    /\ attempted[2] = "related"
    /\ Len(commit_messages) = 1
    /\ commit_messages[1].commit_sha = commits[2].sha

\* teste.py's check_commit has returned for commits[idx]
RefactorReturned == script = "teste.py" /\ idx > 0

\* the message of the commit just checked matches a refactor keyword
\* (case-insensitive)
RefactorMessage ==
    \E keyword \in {"refactor", "extract method", "move method", "move attribute",
                    "cleanup", "reorganize"} :
        SearchWord(Current.message, keyword, TRUE)

\* C13: in teste.py, check_commit reports related_to_refactor = true for every
\* commit whose message matches a refactor keyword, whatever its diff contains
\* (no parent, no keyword in any patch).
C13_MessageDecidesRefactor ==
    (RefactorReturned /\ RefactorMessage) => commit_details.related_to_refactor

\* C15: when get_commit raises an exception other than the rate-limit one, on the
\* first attempt or a later one, check_commit returns None at once: that call is
\* the last of the trace, no fetch and no sleep follows it.
C15_OtherErrorReturnsAtOnce ==
    \A i \in 1..Len(trace) :
        (trace[i].op = "get_commit" /\ trace[i].ended = "Exception") =>
            /\ i = Len(trace)
            /\ Returned
            /\ commit_details = None
            /\ attempted[Len(attempted)] = "failed"

\* the error came on the second attempt, after one rate-limit sleep
C15_Witness ==
    /\ Returned
    /\ Len(trace) = 3
    /\ trace[1].ended = "RateLimitExceededException"
    /\ trace[2] = Sleep(60)
    /\ trace[3].ended = "Exception"
    /\ commit_details = None

\* the stream positions whose commits process_commits appends to commit_messages:
\* the test-related ones in new-script.py, every attempted one in teste.py
Listed ==
    IF script = "new-script.py" THEN Related ELSE 1..Len(attempted)

\* the members of a set of positions, in increasing order
RECURSIVE InOrder(_)
InOrder(S) ==
    IF S = {} THEN <<>>
    ELSE LET least == CHOOSE i \in S : \A j \in S : i <= j
         IN <<least>> \o InOrder(S \ {least})

-----------------------------------------------------------------------------
(* Properties of the throttle of process_commits, under SpecThrottle *)

\* C18: a 10 s pause occurs exactly when the number of attempted commits reaches
\* a positive multiple of 100, once per multiple, whatever the outcomes of the
\* commits, and before the next commit is attempted; no pause occurs at any
\* other count.
C18_PauseAtEachHundred ==
    /\ pauses = [k \in 1..(Len(attempted) \div 100) |->
                    [analyzed |-> 100 * k, seconds |-> 10]]
    /\ pc = "fetch" => Len(attempted) = idx - 1
    /\ pc # "fetch" => Len(attempted) = idx

\* both pauses were taken, the commit at the first multiple having failed
C18_Witness ==
    /\ script = "new-script.py"
    /\ pc = "done"
    /\ Len(pauses) = 2
    /\ attempted[100] = "failed"
    /\ attempted[200] = "related"
    /\ attempted[101] = "unrelated"

-----------------------------------------------------------------------------
(* Properties of find_test_files when listings fail or repeat *)

\* C16: if listing any directory fails, the root included, the walk does not
\* abort: the directory is skipped and the function goes on to return the
\* (partial) test-file set.
C16_ListingFailureSkipped ==
    \A i \in 1..Len(requests) :
        requests[i].ended = "raised" =>
            /\ pc \in {"walk", "done"}
            /\ requests[i].path \in processed_directories

\* C17: during one run the contents of any directory path, the root included, are
\* requested at most once.
C17_EachPathListedOnce ==
    \A i, j \in 1..Len(requests) :
        requests[i].path = requests[j].path => i = j

(***************************************************************************)
(* Termination of find_test_files                                          *)
(***************************************************************************)

\* find_test_files has returned at line 129, the loop of line 104 having ended
\* on an empty work list or on the file cap
WalkEnded ==
    /\ pc = "done"
    /\ directories_to_process = <<>> \/ files_processed >= max_files_to_check

\* C19: whatever the listings hold, links back to known directories and
\* failing listings included, find_test_files ends (it returns, or the listing
\* of line 98 raises out of it before the loop), and once the loop of lines
\* 101-129 is entered it ends with the work list empty or the file cap reached
C19_WalkTerminates ==
    /\ <>(pc \in {"done", "raised"})
    /\ (pc = "walk") ~> WalkEnded

\* the walk has returned with the work list emptied, after a listing that led
\* back to an already-visited directory and after a listing that failed
C19_Witness ==
    /\ pc = "done"
    /\ directories_to_process = <<>>
    /\ \E d \in DOMAIN tree : \E e \in tree[d] :
          /\ e.type = "dir"
          /\ is_test_directory(e.path)
          /\ e.path \in processed_directories
          /\ PathLevels(e.path) <= PathLevels(d)
          /\ d # ""
    /\ \E i \in 1..Len(requests) : requests[i].ended = "raised"

(***************************************************************************)
(* Two calls of find_test_files over one repository                        *)
(***************************************************************************)

\* both calls have returned their sets
BothReturned == pc = "done" /\ first # None

\* the repository answered alike: the listings that raised are the same
SameListings == FailedListings(requests) = first.failed

\* every directory listed by both calls queued its entries in the same order
SameOrder ==
    \A d \in DOMAIN queued \cap DOMAIN first.queued : queued[d] = first.queued[d]

\* neither call reached the file cap
BelowCap ==
    /\ files_processed < max_files_to_check
    /\ first.files_processed < max_files_to_check

\* C14 as stated: two calls over the same unchanged repository, with the same
\* max_files_to_check and max_depth, return equal sets, whatever the order in
\* which each call received the entries and whether or not the cap was reached
C14_TwoRunsEqual ==
    (BothReturned /\ SameListings) => test_files_set = first.files

\* C14 amended: two calls over the same unchanged repository, with the same
\* max_files_to_check and max_depth, return equal sets when both received the
\* entries in the same order or when neither reached the file cap
C14_EqualInSameOrderOrBelowCap ==
    (BothReturned /\ SameListings /\ (SameOrder \/ BelowCap))
        => test_files_set = first.files

\* two calls that received the entries of the root in different orders, stayed
\* below the cap, each had a listing fail, and returned the same non-empty set
C14_Witness ==
    /\ BothReturned
    /\ SameListings
    /\ first.failed # {}
    /\ ~SameOrder
    /\ BelowCap
    /\ test_files_set = first.files
    /\ Cardinality(test_files_set) >= 2

(***************************************************************************)
(* What find_test_files takes from beneath a queued directory              *)
(***************************************************************************)

\* the directories this call listed after line 119 had queued them: every
\* listed directory but the root, which line 101 puts on the work list itself
ListedAfterQueued == DOMAIN queued \ {""}

\* the listing of `dir` left nothing out: each of its directories was queued
\* at line 119, each of its other entries was added at line 122
TakenWhole(dir) ==
    \A e \in tree[dir] :
        IF e.type = "dir"
        THEN \E i \in 1..Len(queued[dir]) : queued[dir][i][1] = e.path
        ELSE e.path \in test_files_set

\* C21: of a directory that was queued for descent and then listed, every
\* subdirectory listed is queued and every file listed is added to
\* test_files_set, whatever the entry's own name
C21_QueuedDirectoryTakenWhole == \A dir \in ListedAfterQueued : TakenWhole(dir)

\* the walk has returned after listing Tests, which holds a directory and a
\* file whose own names carry no test name: src was queued, main.js was added
C21_Witness ==
    /\ pc = "done"
    /\ "Tests" \in ListedAfterQueued
    /\ tree["Tests"] = {[path |-> "Tests/src", type |-> "dir"],
                        [path |-> "Tests/main.js", type |-> "file"]}
    /\ ~is_test_directory(BaseName("Tests/src"))
    /\ ~is_test_file(BaseName("Tests/main.js"))
    /\ "Tests/main.js" \in test_files_set
    /\ queued["Tests"] = << <<"Tests/src", 2>> >>

====
